---- MODULE Spec2Model ----
(***************************************************************************)
(* Model of the KeyCRM -> Rozetka XML feed generator (main.py).            *)
(*                                                                         *)
(* Two specifications share the operators below:                           *)
(*   Spec       one run of rozetka_feed against an upstream that answers   *)
(*              every request with a status of its choosing;               *)
(*   SpecOffer  the per-product offer assembly of rozetka_feed applied to  *)
(*              product and variant records drawn from bounded sets.       *)
(*                                                                         *)
(* Encoding.  A JSON / Python value is a record [t, n, s]: t is the type,  *)
(* n the number (an int as itself, a float in hundredths), s the           *)
(* characters of a string or the elements of a list.  A string is a        *)
(* sequence of one-character tokens; a Cyrillic letter is written as the   *)
(* token "cy_x" (lower case) or "CY_X" (upper case).  A dict is a function *)
(* from keys to values; a key that is absent is outside its DOMAIN.        *)
(* Cyrillic dictionary keys are written "cy:<transliteration>".            *)
(*                                                                         *)
(* Of an offer element the model keeps id, available, name, description,   *)
(* price, stock, categoryId, the <param> elements and the <picture>        *)
(* elements; oldprice, barcode, currencyId, purchase_price, unit and the   *)
(* dimensions are left out (none of them can raise or change the others).  *)
(* Floats are finite with two decimals, or the infinity; NaN, exponents    *)
(* and the words "inf"/"nan" inside strings are outside the inputs.        *)
(***************************************************************************)
EXTENDS Integers, Sequences, FiniteSets, TLC

VARIABLES
    \* ---- the run of rozetka_feed (Spec) ----
    upstream,   \* what the upstream API holds: catalogue pages and pagination style
    pc,         \* position of the run
    res,        \* resource being fetched: "products" or "offers"
    page,       \* the fetch loop's page
    attempt,    \* safe_request's attempt (0-based)
    ret,        \* what safe_request returned to the fetch loop
    products,   \* fetch_products' accumulated list
    variants,   \* fetch_offers_for_product's accumulated list
    idx,        \* index of the product being processed (enumerate(products))
    feed,       \* the offers appended to offers_elem so far
    response,   \* the Response returned by rozetka_feed
    sleeps,     \* durations slept by the current safe_request call
    answers,    \* statuses answered to the current safe_request call
    pagesReq,   \* pages requested by the current fetch loop, one entry per safe_request call
    faults,     \* number of faulty answers the upstream has given so far in the run
    seen401,    \* a request of the run was answered 401
    after401,   \* a request was issued after a 401 answer
    \* ---- offer assembly on drawn inputs (SpecOffer) ----
    inProduct,  \* the product record
    inVariants, \* the variant records returned for it
    vpos,       \* number of variants processed
    out,        \* offers emitted for the product
    raised      \* an exception escaped the assembly

runVars == <<upstream, pc, res, page, attempt, ret, products, variants, idx, feed,
             response, sleeps, answers, pagesReq, faults, seen401, after401>>
offerVars == <<inProduct, inVariants, vpos, out, raised>>
vars == <<runVars, offerVars>>

----------------------------------------------------------------------------
(* Python values *)

None == [t |-> "none", n |-> 0, s |-> <<>>]
PyBool(b) == [t |-> "bool", n |-> IF b THEN 1 ELSE 0, s |-> <<>>]
PyInt(i) == [t |-> "int", n |-> i, s |-> <<>>]
\* a finite float, given in hundredths
PyFloat(h) == [t |-> "float", n |-> h, s |-> <<>>]
\* the float infinity (JSON 1e999)
PyInf == [t |-> "inf", n |-> 0, s |-> <<>>]
PyStr(cs) == [t |-> "str", n |-> 0, s |-> cs]
PyList(xs) == [t |-> "list", n |-> 0, s |-> xs]
EmptyDict == [k \in {} |-> None]

\* isinstance(x, dict): values carry a type field, dicts do not
IsDict(x) == "t" \notin DOMAIN x
IsList(x) == ~IsDict(x) /\ x.t = "list"

\* d.get(k) and d.get(k, default)
Get(d, k) == IF k \in DOMAIN d THEN d[k] ELSE None
GetD(d, k, dflt) == IF k \in DOMAIN d THEN d[k] ELSE dflt

\* bool(v)
Truthy(v) ==
    CASE v.t = "none" -> FALSE
      [] v.t \in {"bool", "int", "float"} -> v.n # 0
      [] v.t = "inf" -> TRUE
      [] v.t \in {"str", "list"} -> Len(v.s) > 0

\* a or b
Or(a, b) == IF Truthy(a) THEN a ELSE b

\* the first truthy value of d.get(k) over the keys, else the last one read
RECURSIVE OrKeys(_, _)
OrKeys(d, keys) ==
    IF Len(keys) = 1 THEN Get(d, keys[1])
    ELSE Or(Get(d, keys[1]), OrKeys(d, Tail(keys)))

----------------------------------------------------------------------------
(* Text: str(), strip(), lower(), substring, float(), int(), format *)

Digit(d) == ToString(d)
DigitChars == {Digit(d) : d \in 0..9}
DigitVal(c) == CHOOSE d \in 0..9 : Digit(d) = c

RECURSIVE NatToStr(_)
NatToStr(n) == IF n < 10 THEN <<Digit(n)>> ELSE NatToStr(n \div 10) \o <<Digit(n % 10)>>

IntToStr(i) == IF i < 0 THEN <<"-">> \o NatToStr(-i) ELSE NatToStr(i)

Abs(i) == IF i < 0 THEN -i ELSE i

\* repr of a finite float given in hundredths: 5.0, 2.5, 2.55
FloatToStr(h) ==
    LET w == Abs(h) \div 100
        f == Abs(h) % 100
    IN  (IF h < 0 THEN <<"-">> ELSE <<>>) \o NatToStr(w) \o <<".">> \o
        (IF f % 10 = 0 THEN <<Digit(f \div 10)>> ELSE <<Digit(f \div 10), Digit(f % 10)>>)

\* str(v); the str() of a list or dict is outside the modelled inputs
PyStrOf(v) ==
    CASE v.t = "none" -> <<"N", "o", "n", "e">>
      [] v.t = "bool" -> IF v.n = 1 THEN <<"T", "r", "u", "e">> ELSE <<"F", "a", "l", "s", "e">>
      [] v.t = "int" -> IntToStr(v.n)
      [] v.t = "float" -> FloatToStr(v.n)
      [] v.t = "inf" -> <<"i", "n", "f">>
      [] v.t = "str" -> v.s
      [] v.t = "list" -> <<"[", "]">>

RECURSIVE LStrip(_)
LStrip(cs) == IF cs # <<>> /\ Head(cs) = " " THEN LStrip(Tail(cs)) ELSE cs

RECURSIVE RStrip(_)
RStrip(cs) ==
    IF cs # <<>> /\ cs[Len(cs)] = " " THEN RStrip(SubSeq(cs, 1, Len(cs) - 1)) ELSE cs

Strip(cs) == RStrip(LStrip(cs))

safe_text(text) == IF text.t = "none" THEN <<>> ELSE Strip(PyStrOf(text))

UpperToLower ==
    [c \in {"C", "O", "L", "U", "R", "S", "I", "Z", "E", "CY_K", "CY_R", "CY_TS"} |->
        CASE c = "C" -> "c" [] c = "O" -> "o" [] c = "L" -> "l" [] c = "U" -> "u"
          [] c = "R" -> "r" [] c = "S" -> "s" [] c = "I" -> "i" [] c = "Z" -> "z"
          [] c = "E" -> "e" [] c = "CY_K" -> "cy_k" [] c = "CY_R" -> "cy_r"
          [] c = "CY_TS" -> "cy_ts"]

\* str.lower()
Lower(cs) ==
    [i \in 1..Len(cs) |-> IF cs[i] \in DOMAIN UpperToLower THEN UpperToLower[cs[i]] ELSE cs[i]]

\* needle in hay
Contains(hay, needle) ==
    \E i \in 0..(Len(hay) - Len(needle)) : SubSeq(hay, i + 1, i + Len(needle)) = needle

AllDigits(cs) == \A i \in 1..Len(cs) : cs[i] \in DigitChars

RECURSIVE DigitsVal(_)
DigitsVal(cs) ==
    IF cs = <<>> THEN 0 ELSE DigitsVal(SubSeq(cs, 1, Len(cs) - 1)) * 10 + DigitVal(cs[Len(cs)])

Unsigned(cs) == IF cs # <<>> /\ Head(cs) \in {"-", "+"} THEN Tail(cs) ELSE cs
SignOf(cs) == IF cs # <<>> /\ Head(cs) = "-" THEN -1 ELSE 1
DotAt(cs) == IF \E i \in 1..Len(cs) : cs[i] = "." THEN CHOOSE i \in 1..Len(cs) : cs[i] = "." /\ \A j \in 1..(i - 1) : cs[j] # "." ELSE 0

\* int("..."): [ok, v]; decimal literals without underscores
ParseInt(cs) ==
    LET u == Unsigned(Strip(cs))
    IN  IF u # <<>> /\ AllDigits(u)
        THEN [ok |-> TRUE, v |-> SignOf(Strip(cs)) * DigitsVal(u)]
        ELSE [ok |-> FALSE, v |-> 0]

\* float("..."): [ok, h] in hundredths; literals with at most two fractional
\* digits, no exponent, no inf/nan words
ParseFloat(cs) ==
    LET u == Unsigned(Strip(cs))
        d == DotAt(u)
        w == IF d = 0 THEN u ELSE SubSeq(u, 1, d - 1)
        f == IF d = 0 THEN <<>> ELSE SubSeq(u, d + 1, Len(u))
        f2 == IF Len(f) = 0 THEN <<"0", "0">> ELSE IF Len(f) = 1 THEN f \o <<"0">> ELSE f
    IN  IF AllDigits(w) /\ AllDigits(f) /\ Len(w) + Len(f) > 0 /\ Len(f) <= 2
        THEN [ok |-> TRUE, h |-> SignOf(Strip(cs)) * (DigitsVal(w) * 100 + DigitsVal(f2))]
        ELSE [ok |-> FALSE, h |-> 0]

\* float(v): [exc, inf, h]; exc is "" or the exception raised
ToFloat(v) ==
    CASE v.t \in {"int", "bool"} -> [exc |-> "", inf |-> FALSE, h |-> v.n * 100]
      [] v.t = "float" -> [exc |-> "", inf |-> FALSE, h |-> v.n]
      [] v.t = "inf" -> [exc |-> "", inf |-> TRUE, h |-> 0]
      [] v.t = "str" ->
            IF ParseFloat(v.s).ok
            THEN [exc |-> "", inf |-> FALSE, h |-> ParseFloat(v.s).h]
            ELSE [exc |-> "ValueError", inf |-> FALSE, h |-> 0]
      [] v.t \in {"none", "list"} -> [exc |-> "TypeError", inf |-> FALSE, h |-> 0]

\* int(x) of a finite float in hundredths: truncation toward zero
Trunc(h) == IF h >= 0 THEN h \div 100 ELSE -((-h) \div 100)

\* int(v): [exc, v]
ToInt(v) ==
    CASE v.t \in {"int", "bool"} -> [exc |-> "", v |-> v.n]
      [] v.t = "float" -> [exc |-> "", v |-> Trunc(v.n)]
      [] v.t = "inf" -> [exc |-> "OverflowError", v |-> 0]
      [] v.t = "str" ->
            IF ParseInt(v.s).ok
            THEN [exc |-> "", v |-> ParseInt(v.s).v]
            ELSE [exc |-> "ValueError", v |-> 0]
      [] v.t \in {"none", "list"} -> [exc |-> "TypeError", v |-> 0]

\* int(float(v)): [exc, v]
IntOfFloat(v) ==
    LET f == ToFloat(v)
    IN  IF f.exc # "" THEN [exc |-> f.exc, v |-> 0]
        ELSE IF f.inf THEN [exc |-> "OverflowError", v |-> 0]
        ELSE [exc |-> "", v |-> Trunc(f.h)]

\* f"{x:.2f}" of a float(v) result
Format2(f) ==
    IF f.inf THEN <<"i", "n", "f">>
    ELSE (IF f.h < 0 THEN <<"-">> ELSE <<>>) \o NatToStr(Abs(f.h) \div 100) \o <<".">> \o
         <<Digit((Abs(f.h) % 100) \div 10), Digit(Abs(f.h) % 10)>>

----------------------------------------------------------------------------
(* Field names and their characters *)

color_fields == <<"color", "colour", "cy:kolir", "cy:tsvet", "Color", "COLOUR">>
size_fields == <<"size", "cy:rozmir", "cy:razmer", "Size", "SIZE">>
\* the lists the generic-parameter filter of rozetka_feed uses
\* faulty variant: the filter forgets the Cyrillic synonyms
param_color_fields_Latin == <<"color", "colour">>
param_color_fields == <<"color", "colour", "cy:kolir", "cy:tsvet">>
param_size_fields == <<"size", "cy:rozmir", "cy:razmer">>

\* the characters of a field name
Chars(key) ==
    CASE key = "color" -> <<"c", "o", "l", "o", "r">>
      [] key = "colour" -> <<"c", "o", "l", "o", "u", "r">>
      [] key = "cy:kolir" -> <<"cy_k", "cy_o", "cy_l", "cy_i", "cy_r">>
      [] key = "cy:tsvet" -> <<"cy_ts", "cy_v", "cy_e", "cy_t">>
      [] key = "Color" -> <<"C", "o", "l", "o", "r">>
      [] key = "COLOUR" -> <<"C", "O", "L", "O", "U", "R">>
      [] key = "size" -> <<"s", "i", "z", "e">>
      [] key = "cy:rozmir" -> <<"cy_r", "cy_o", "cy_z", "cy_m", "cy_i", "cy_r">>
      [] key = "cy:razmer" -> <<"cy_r", "cy_a", "cy_z", "cy_m", "cy_e", "cy_r">>
      [] key = "Size" -> <<"S", "i", "z", "e">>
      [] key = "SIZE" -> <<"S", "I", "Z", "E">>

\* the name attribute of the colour and size parameters
KolirName == <<"CY_K", "cy_o", "cy_l", "cy_i", "cy_r">>
RozmirName == <<"CY_R", "cy_o", "cy_z", "cy_m", "cy_i", "cy_r">>

\* any(f.lower() in field_name for f in fields)
AnyIn(fields, field_name) ==
    \E i \in 1..Len(fields) : Contains(field_name, Lower(Chars(fields[i])))

\* str(cf.get('name', '') or cf.get('uuid', '')).lower()
CfFieldName(cf) ==
    Lower(PyStrOf(Or(GetD(cf, "name", PyStr(<<>>)), GetD(cf, "uuid", PyStr(<<>>)))))

----------------------------------------------------------------------------
(* extract_color_and_size *)

\* for field in fields: if attr.get(field): value = attr[field]; break
RECURSIVE FirstDirect(_, _)
FirstDirect(attr, fields) ==
    IF fields = <<>> THEN None
    ELSE IF Truthy(Get(attr, Head(fields))) THEN attr[Head(fields)]
    ELSE FirstDirect(attr, Tail(fields))

\* one pass of the custom-field loop: the (color, size) pair after cf
CfStep(cf, cs) ==
    IF ~IsDict(cf) THEN cs
    ELSE LET field_name == CfFieldName(cf)
             field_value == Get(cf, "value")
         IN  IF Truthy(field_value) /\ AnyIn(color_fields, field_name)
             THEN [cs EXCEPT !.color = field_value]
             ELSE IF Truthy(field_value) /\ AnyIn(size_fields, field_name)
             THEN [cs EXCEPT !.size = field_value]
             ELSE cs

RECURSIVE CfScan(_, _)
CfScan(cfs, cs) == IF cfs = <<>> THEN cs ELSE CfScan(Tail(cfs), CfStep(Head(cfs), cs))

\* prod_attr = None is passed as the empty dict: both are falsy
extract_color_and_size(var_attr, prod_attr) ==
    LET direct == [color |-> FirstDirect(var_attr, color_fields),
                   size |-> FirstDirect(var_attr, size_fields)]
        custom_fields == GetD(var_attr, "custom_fields", PyList(<<>>))
        scanned == IF IsList(custom_fields) THEN CfScan(custom_fields.s, direct) ELSE direct
        hasProd == DOMAIN prod_attr # {}
    IN  [color |-> IF ~Truthy(scanned.color) /\ hasProd
                   THEN FirstDirect(prod_attr, color_fields) ELSE scanned.color,
         size |-> IF ~Truthy(scanned.size) /\ hasProd
                  THEN FirstDirect(prod_attr, size_fields) ELSE scanned.size]

\* the <param> elements add_color_size_params appends
add_color_size_params(color, size) ==
    (IF Truthy(color) THEN <<[name |-> KolirName, text |-> safe_text(color)]>> ELSE <<>>) \o
    (IF Truthy(size) THEN <<[name |-> RozmirName, text |-> safe_text(size)]>> ELSE <<>>)

----------------------------------------------------------------------------
(* rozetka_feed: one product's offers *)

\* the attribute mapping of a product or variant record
AttrOf(rec) ==
    IF "attributes" \in DOMAIN rec THEN rec["attributes"]
    ELSE IF "data" \in DOMAIN rec /\ IsDict(rec["data"])
    THEN GetD(rec["data"], "attributes", EmptyDict)
    ELSE rec

IdOf(rec) ==
    IF "attributes" \in DOMAIN rec THEN Get(rec, "id")
    ELSE IF "data" \in DOMAIN rec /\ IsDict(rec["data"])
    THEN Or(Get(rec["data"], "id"), Get(rec, "id"))
    ELSE Get(rec, "id")

common_desc(prod_attr) ==
    Or(GetD(prod_attr, "description", PyStr(<<>>)), GetD(prod_attr, "desc", PyStr(<<>>)))
common_pics(prod_attr) ==
    Or(GetD(prod_attr, "pictures", PyList(<<>>)), GetD(prod_attr, "images", PyList(<<>>)))
product_name(prod_attr, product_id) ==
    GetD(prod_attr, "name",
         PyStr(<<"P", "r", "o", "d", "u", "c", "t", " ">> \o PyStrOf(product_id)))
\* faulty variant: selling_price is read before price
product_price_SellingFirst(prod_attr) ==
    Or(GetD(prod_attr, "selling_price", PyInt(0)), GetD(prod_attr, "price", PyInt(0)))
product_price(prod_attr) ==
    Or(GetD(prod_attr, "price", PyInt(0)), GetD(prod_attr, "selling_price", PyInt(0)))
product_stock(prod_attr) ==
    Or(GetD(prod_attr, "stock", PyInt(0)), GetD(prod_attr, "quantity", PyInt(0)))

\* try: x = conv(v) if v is not None else 0 / except (ValueError, TypeError): x = 0
\* c is the conversion's result; any other exception escapes
Guarded(v, c) ==
    IF v.t = "none" THEN [exc |-> "", v |-> 0]
    ELSE IF c.exc \in {"ValueError", "TypeError"} THEN [exc |-> "", v |-> 0]
    ELSE c

\* price = float(v) if v is not None else 0.0 / except (ValueError, TypeError): 0.0
PriceOf(v) ==
    IF v.t = "none" \/ ToFloat(v).exc # "" THEN [exc |-> "", inf |-> FALSE, h |-> 0]
    ELSE ToFloat(v)

\* the <picture> elements: for pic_url in pics: if pic_url: ...
RECURSIVE PictureTexts(_)
PictureTexts(xs) ==
    IF xs = <<>> THEN <<>>
    ELSE (IF Truthy(Head(xs)) THEN <<safe_text(Head(xs))>> ELSE <<>>) \o PictureTexts(Tail(xs))

Pictures(pics) == IF IsList(pics) THEN PictureTexts(pics.s) ELSE <<>>

\* the text of an optional element: <<>> when the element is not created
Optional(v) == IF Truthy(v) THEN <<safe_text(v)>> ELSE <<>>

\* the offer made from the product's own data (no variants)
ProductStockOf(prod_attr) == Guarded(product_stock(prod_attr), ToInt(product_stock(prod_attr)))

\* faulty variant: a stock of 0 counts as available
ProductAvailable_Ge(stock) == IF stock >= 0 THEN "true" ELSE "false"
ProductAvailable(stock) == IF stock > 0 THEN "true" ELSE "false"

ProductOffer(product) ==
    LET prod_attr == AttrOf(product)
        product_id == IdOf(product)
        stock == ProductStockOf(prod_attr)
        cs == extract_color_and_size(prod_attr, EmptyDict)
    IN  IF stock.exc # "" THEN [kind |-> "raise"]
        ELSE [kind |-> "offer",
              offer |-> [id |-> PyStrOf(product_id),
                         available |-> ProductAvailable(stock.v),
                         name |-> safe_text(product_name(prod_attr, product_id)),
                         description |-> Optional(common_desc(prod_attr)),
                         price |-> Format2(PriceOf(product_price(prod_attr))),
                         stock |-> IntToStr(stock.v),
                         categoryId |-> <<>>,
                         params |-> add_color_size_params(cs.color, cs.size),
                         pictures |-> Pictures(common_pics(prod_attr))]]

\* faulty variant: only the sku attribute identifies a variant
VariantSku_SkuOnly(var_attr) == Get(var_attr, "sku")

\* the variant's identifier: sku or article or code or vendor_code
VariantSku(var_attr) == OrKeys(var_attr, <<"sku", "article", "code", "vendor_code">>)

VariantStockRaw(var_attr) ==
    Or(OrKeys(var_attr, <<"stock", "quantity", "available_quantity", "balance", "cy:ostatok">>),
       PyInt(0))

VariantStockOf(var_attr) ==
    Guarded(VariantStockRaw(var_attr), IntOfFloat(VariantStockRaw(var_attr)))

VariantAvailable(stock) == IF stock > 0 THEN "true" ELSE "false"

VariantPriceRaw(var_attr, prod_attr) ==
    Or(Or(OrKeys(var_attr, <<"price", "selling_price", "sale_price", "retail_price",
                             "cy:roznichnaya_tsena", "cy:tsena">>),
          product_price(prod_attr)),
       PyInt(0))

\* one generic <param> per custom field that is a dict with uuid and value,
\* unless its name matches a colour or size synonym
RECURSIVE GenericParams(_)
GenericParams(cfs) ==
    IF cfs = <<>> THEN <<>>
    ELSE LET cf == Head(cfs)
         IN  (IF IsDict(cf) /\ Truthy(Get(cf, "uuid")) /\ Truthy(Get(cf, "value"))
                 /\ ~AnyIn(param_color_fields, CfFieldName(cf))
                 /\ ~AnyIn(param_size_fields, CfFieldName(cf))
              THEN <<[name |-> PyStrOf(GetD(cf, "name", cf["uuid"])),
                      text |-> safe_text(cf["value"])]>>
              ELSE <<>>) \o GenericParams(Tail(cfs))

CustomParams(var_attr) ==
    LET custom_fields == GetD(var_attr, "custom_fields", PyList(<<>>))
    IN  IF IsList(custom_fields) THEN GenericParams(custom_fields.s) ELSE <<>>

VariantPics(var_attr, prod_attr) ==
    Or(Or(Or(Get(var_attr, "pictures"), Get(var_attr, "images")), common_pics(prod_attr)),
       PyList(<<>>))

\* one pass of "for var in variants": skip, raise, or the offer appended
VariantOffer(product, var) ==
    LET prod_attr == AttrOf(product)
        product_id == IdOf(product)
        var_attr == AttrOf(var)
        sku == VariantSku(var_attr)
        stock == VariantStockOf(var_attr)
        cs == extract_color_and_size(var_attr, prod_attr)
        category_id == Or(Get(var_attr, "category_id"), Get(prod_attr, "category_id"))
    IN  IF ~Truthy(sku) THEN [kind |-> "skip"]
        ELSE IF stock.exc # "" THEN [kind |-> "raise"]
        ELSE [kind |-> "offer",
              offer |-> [id |-> PyStrOf(sku),
                         available |-> VariantAvailable(stock.v),
                         name |-> safe_text(Or(Get(var_attr, "name"),
                                               product_name(prod_attr, product_id))),
                         description |-> Optional(Or(Or(Get(var_attr, "description"),
                                                        Get(var_attr, "desc")),
                                                     common_desc(prod_attr))),
                         price |-> Format2(PriceOf(VariantPriceRaw(var_attr, prod_attr))),
                         stock |-> IntToStr(stock.v),
                         categoryId |-> IF Truthy(category_id)
                                        THEN <<safe_text(PyStr(PyStrOf(category_id)))>>
                                        ELSE <<>>,
                         params |-> add_color_size_params(cs.color, cs.size)
                                    \o CustomParams(var_attr),
                         pictures |-> Pictures(VariantPics(var_attr, prod_attr))]]

\* the offers rozetka_feed appends for one product, or "raise"
RECURSIVE VariantOffers(_, _)
VariantOffers(product, vs) ==
    IF vs = <<>> THEN [kind |-> "ok", offers |-> <<>>]
    ELSE LET o == VariantOffer(product, Head(vs))
             rest == VariantOffers(product, Tail(vs))
         IN  IF o.kind = "raise" \/ rest.kind = "raise" THEN [kind |-> "raise", offers |-> <<>>]
             ELSE [kind |-> "ok",
                   offers |-> (IF o.kind = "offer" THEN <<o.offer>> ELSE <<>>) \o rest.offers]

OffersOf(product, vs) ==
    IF vs = <<>>
    THEN LET o == ProductOffer(product)
         IN  IF o.kind = "raise" THEN [kind |-> "raise", offers |-> <<>>]
             ELSE [kind |-> "ok", offers |-> <<o.offer>>]
    ELSE VariantOffers(product, vs)

----------------------------------------------------------------------------
(* Inputs of the offer assembly: upstream records drawn from bounded sets *)

MaxVariants == 2
MaxCustom == 2
MaxPics == 3

\* marks a key the record does not have
Absent == [t |-> "absent", n |-> 0, s |-> <<>>]

\* the dict holding the keys of f that are not Absent
Mk(f) == [k \in {j \in DOMAIN f : f[j].t # "absent"} |-> f[k]]

\* a record with the given attributes in one of the three upstream layouts
Shaped(attrs, id, shape) ==
    LET idPart == Mk([id |-> id])
    IN  CASE shape = "flat" -> [k \in DOMAIN attrs \cup DOMAIN idPart |->
                                   IF k \in DOMAIN attrs THEN attrs[k] ELSE idPart[k]]
          [] shape = "attributes" -> [k \in {"attributes"} \cup DOMAIN idPart |->
                                         IF k = "attributes" THEN attrs ELSE idPart[k]]
          [] shape = "data" -> [data |-> [k \in {"attributes"} \cup DOMAIN idPart |->
                                             IF k = "attributes" THEN attrs ELSE idPart[k]]]

Shapes == {"flat", "attributes", "data"}

\* all sequences over S of length lo..hi
SeqsOf(S, lo, hi) == UNION {[1..n -> S] : n \in lo..hi}

StockValues ==
    {Absent, None, PyInt(5), PyInt(0), PyInt(-3), PyFloat(250), PyFloat(-50), PyInf,
     PyStr(<<"7">>), PyStr(<<"2", ".", "5">>), PyStr(<<"-", "4">>), PyStr(<<"a", "b", "c">>),
     PyStr(<<>>), PyList(<<>>)}

PriceValues ==
    {Absent, None, PyInt(100), PyInt(0), PyFloat(1999), PyStr(<<"9", ".", "5">>),
     PyStr(<<"x">>)}

BaseProduct ==
    [id |-> PyInt(1), name |-> PyStr(<<"T">>), price |-> PyInt(100), stock |-> PyInt(7)]

\* family 1: variants that differ in their identifier fields
SkuVariants ==
    {Mk(f) : f \in [sku : {Absent, PyStr(<<"A", "1">>), PyStr(<<>>)},
                    article : {Absent, PyStr(<<"B", "2">>)},
                    code : {None, PyInt(77)},
                    vendor_code : {Absent, PyStr(<<"V">>)}]}

SkuInputs ==
    {[product |-> BaseProduct, variants |-> vs] : vs \in SeqsOf(SkuVariants, 1, MaxVariants)}

\* family 2: one variant, stock fields varied on both levels
StockVariants ==
    {Mk(f) : f \in [sku : {PyStr(<<"A", "1">>)},
                    stock : StockValues,
                    quantity : {Absent, PyInt(2), PyInt(-1)},
                    balance : {Absent, PyStr(<<"4">>)}]}

StockProducts ==
    {Mk(f) : f \in [id : {PyInt(1)}, stock : {Absent, PyInt(7)}]}

StockInputs ==
    {[product |-> p, variants |-> <<Shaped(v, PyInt(10), sh)>>] :
        p \in StockProducts, v \in StockVariants, sh \in Shapes}

\* family 3: one variant, price fields varied on both levels
PriceVariants ==
    {Mk(f) : f \in [sku : {PyStr(<<"A", "1">>)},
                    price : PriceValues,
                    selling_price : {Absent, PyFloat(1050)}]}

PriceProducts ==
    {Mk(f) : f \in [id : {PyInt(1)}, price : {Absent, PyInt(100), PyStr(<<"x">>)}]}

PriceInputs ==
    {[product |-> p, variants |-> <<v>>] : p \in PriceProducts, v \in PriceVariants}

\* family 4: products without variants
BareProducts ==
    {Mk(f) : f \in [stock : StockValues,
                    quantity : {Absent, PyInt(2), PyInt(-1)},
                    price : {PyInt(100)}]}
    \cup {Mk(f) : f \in [stock : {PyInt(5)},
                         price : PriceValues,
                         selling_price : {Absent, PyFloat(1050)}]}

BareInputs ==
    {[product |-> Shaped(a, id, sh), variants |-> <<>>] :
        a \in BareProducts, id \in {Absent, PyInt(1), PyStr(<<"p", "9">>)}, sh \in Shapes}

\* family 5: colour and size, direct and through custom fields
NamedFields ==
    {Mk([name |-> PyStr(<<"CY_K", "cy_o", "cy_l", "cy_i", "cy_r">>), uuid |-> u,
         value |-> PyStr(<<"r", "e", "d">>)]) : u \in {Absent, PyStr(<<"u", "1">>)}}
    \cup {Mk([name |-> PyStr(<<"I", "t", "e", "m", " ", "C", "O", "L", "O", "R">>), uuid |-> u,
              value |-> PyStr(<<"n", "a", "v", "y">>)]) : u \in {Absent, PyStr(<<"u", "2">>)}}
    \cup {Mk([name |-> PyStr(<<"S", "i", "z", "e">>), uuid |-> u,
              value |-> PyStr(<<" ", "L">>)]) : u \in {Absent, PyStr(<<"u", "3">>)}}
    \cup {Mk([name |-> PyStr(<<"M", "a", "t">>), uuid |-> u,
              value |-> PyStr(<<"w", "o", "o", "l">>)]) : u \in {Absent, PyStr(<<"u", "4">>)}}
    \cup {Mk([name |-> n, uuid |-> PyStr(<<"u", "5">>), value |-> PyInt(42)]) :
              n \in {Absent, None}}

CustomFields ==
    NamedFields
    \cup {[name |-> PyStr(<<"CY_K", "cy_o", "cy_l", "cy_i", "cy_r">>),
           uuid |-> PyStr(<<"u", "6">>), value |-> PyStr(<<>>)],
          [name |-> PyStr(<<"M", "a", "t">>), uuid |-> PyStr(<<"u", "7">>), value |-> None],
          [uuid |-> PyStr(<<"u", "_", "c", "o", "l", "o", "r">>),
           value |-> PyStr(<<"t", "a", "n">>)],
          PyStr(<<"x">>)}

ColorVariants ==
    {Mk([sku |-> PyStr(<<"A", "1">>), color |-> c, custom_fields |-> PyList(cfs)]) :
        c \in {Absent, PyStr(<<"b", "l", "u", "e">>)},
        cfs \in SeqsOf(CustomFields, 0, MaxCustom)}
    \cup {Mk([sku |-> PyStr(<<"A", "1">>), custom_fields |-> None])}

ColorProducts ==
    {Mk(f) : f \in [id : {PyInt(1)}, color : {Absent, PyStr(<<"g", "r", "e", "e", "n">>)}]}

ColorInputs ==
    {[product |-> p, variants |-> <<v>>] : p \in ColorProducts, v \in ColorVariants}

\* family 6: picture lists, with repeated and empty entries
PicLists ==
    {PyList(xs) : xs \in SeqsOf({PyStr(<<"a">>), PyStr(<<"b">>), PyStr(<<>>)}, 0, MaxPics)}

PicVariants ==
    {Mk(f) : f \in [sku : {PyStr(<<"A", "1">>)},
                    pictures : {Absent, None, PyStr(<<"a">>)} \cup PicLists,
                    images : {Absent, PyList(<<PyStr(<<"c">>), PyStr(<<"c">>)>>)}]}

PicProducts ==
    {Mk(f) : f \in [id : {PyInt(1)},
                    pictures : {Absent, PyList(<<PyStr(<<"p">>), PyStr(<<"q">>), PyStr(<<"p">>)>>)},
                    images : {Absent, PyList(<<PyStr(<<"r">>)>>)}]}

PicInputs ==
    {[product |-> p, variants |-> vs] :
        p \in PicProducts, vs \in {<<>>} \cup {<<v>> : v \in PicVariants}}

OfferInputs ==
    SkuInputs \cup StockInputs \cup PriceInputs \cup BareInputs \cup ColorInputs \cup PicInputs

----------------------------------------------------------------------------
(* SpecOffer: the body of "for i, product in enumerate(products)" on one product *)

\* what rozetka_feed returns: nothing yet, the XML document, or a failure
NoResponse == [status |-> 0, xml |-> FALSE, offers |-> <<>>]
XmlResponse(offers) == [status |-> 200, xml |-> TRUE, offers |-> offers]
\* faulty variant: without products an empty feed is returned
NotFound_EmptyFeed == XmlResponse(<<>>)
NotFound == [status |-> 404, xml |-> FALSE, offers |-> <<>>]
ServerError == [status |-> 500, xml |-> FALSE, offers |-> <<>>]

\* the run of Spec is not started
RunOff ==
    /\ upstream = EmptyDict
    /\ pc = "off"
    /\ res = "products"
    /\ page = 1
    /\ attempt = 0
    /\ ret = None
    /\ products = <<>>
    /\ variants = <<>>
    /\ idx = 0
    /\ feed = <<>>
    /\ response = NoResponse
    /\ sleeps = <<>>
    /\ answers = <<>>
    /\ pagesReq = <<>>
    /\ faults = 0
    /\ seen401 = FALSE
    /\ after401 = FALSE

InitOffer ==
    /\ RunOff
    /\ \E inp \in OfferInputs :
          /\ inProduct = inp.product
          /\ inVariants = inp.variants
    /\ vpos = 0
    /\ out = <<>>
    /\ raised = FALSE

\* "if not variants": the offer made from the product's own data
EmitProductOffer ==
    /\ inVariants = <<>> /\ vpos = 0 /\ ~raised
    /\ ProductOffer(inProduct).kind = "offer"
    /\ out' = Append(out, ProductOffer(inProduct).offer)
    /\ vpos' = 1
    /\ UNCHANGED <<inProduct, inVariants, raised, runVars>>

\* int(product_stock) raises an exception the handler does not catch
RaiseProductOffer ==
    /\ inVariants = <<>> /\ vpos = 0 /\ ~raised
    /\ ProductOffer(inProduct).kind = "raise"
    /\ raised' = TRUE
    /\ UNCHANGED <<inProduct, inVariants, vpos, out, runVars>>

\* "if not sku: continue"
SkipVariant ==
    /\ vpos < Len(inVariants) /\ ~raised
    /\ VariantOffer(inProduct, inVariants[vpos + 1]).kind = "skip"
    /\ vpos' = vpos + 1
    /\ UNCHANGED <<inProduct, inVariants, out, raised, runVars>>

\* one pass of the variant loop that appends an offer
EmitVariantOffer ==
    /\ vpos < Len(inVariants) /\ ~raised
    /\ VariantOffer(inProduct, inVariants[vpos + 1]).kind = "offer"
    /\ out' = Append(out, VariantOffer(inProduct, inVariants[vpos + 1]).offer)
    /\ vpos' = vpos + 1
    /\ UNCHANGED <<inProduct, inVariants, raised, runVars>>

\* int(float(stock)) raises an exception the handler does not catch
RaiseVariantOffer ==
    /\ vpos < Len(inVariants) /\ ~raised
    /\ VariantOffer(inProduct, inVariants[vpos + 1]).kind = "raise"
    /\ raised' = TRUE
    /\ UNCHANGED <<inProduct, inVariants, vpos, out, runVars>>

NextOffer ==
    \/ EmitProductOffer
    \/ RaiseProductOffer
    \/ SkipVariant
    \/ EmitVariantOffer
    \/ RaiseVariantOffer

SpecOffer == InitOffer /\ [][NextOffer]_vars

\* the product's loop body has finished without an exception
OfferDone ==
    /\ ~raised
    /\ IF inVariants = <<>> THEN vpos = 1 ELSE vpos = Len(inVariants)

----------------------------------------------------------------------------
(* Properties of the emitted offers (SpecOffer) *)

\* an attribute that is present and non-empty: not null, not the empty string
NonEmptyAttr(d, k) == k \in DOMAIN d /\ d[k].t # "none" /\ ~(d[k].t = "str" /\ d[k].s = <<>>)

SkuKeys == <<"sku", "article", "code", "vendor_code">>

HasSku(var) == \E i \in 1..Len(SkuKeys) : NonEmptyAttr(AttrOf(var), SkuKeys[i])

\* the text of the first non-empty identifier attribute, in the order of SkuKeys
FirstSkuText(var) ==
    LET i == CHOOSE i \in 1..Len(SkuKeys) :
                 /\ NonEmptyAttr(AttrOf(var), SkuKeys[i])
                 /\ \A j \in 1..(i - 1) : ~NonEmptyAttr(AttrOf(var), SkuKeys[j])
    IN  PyStrOf(AttrOf(var)[SkuKeys[i]])

\* the variants processed so far that have an identifier, in order
Identified == SelectSeq(SubSeq(inVariants, 1, vpos), HasSku)

OfferIds == [i \in 1..Len(out) |-> out[i].id]

\* C5: in every emitted offer, on the variant path and on the product path, the
\* attribute available is "true" exactly when the integer written to the stock
\* element is greater than 0.
C5_AvailableIffStockPositive ==
    \A i \in 1..Len(out) :
        /\ out[i].available \in {"true", "false"}
        /\ ParseInt(out[i].stock).ok
        /\ (out[i].available = "true") <=> (ParseInt(out[i].stock).v > 0)

\* a product without variants whose upstream stock is the string "7" got an
\* offer that is available
C5_Witness ==
    /\ inVariants = <<>>
    /\ Len(out) = 1
    /\ Get(AttrOf(inProduct), "stock") = PyStr(<<"7">>)
    /\ out[1].available = "true"

\* C6 (as claimed): every emitted offer carries a stock that is an integer >= 0,
\* whatever the upstream record supplies.
C6_StockNonNegative ==
    \A i \in 1..Len(out) : ParseInt(out[i].stock).ok /\ ParseInt(out[i].stock).v >= 0

\* C7: for a product with variants, the offers are exactly the variants that have
\* a non-empty sku, article, code or vendor_code, in order, each with the first
\* non-empty of these as its id; no offer has an empty id.
C7_OffersAreIdentifiedVariants ==
    (inVariants # <<>> /\ ~raised) =>
        /\ OfferIds = [i \in 1..Len(Identified) |-> FirstSkuText(Identified[i])]
        /\ \A i \in 1..Len(out) : out[i].id # <<>>

\* two variants were processed, one of them without any identifier, and exactly
\* one offer was emitted
C7_Witness ==
    /\ Len(inVariants) = 2
    /\ vpos = 2
    /\ ~raised
    /\ HasSku(inVariants[1]) /\ ~HasSku(inVariants[2])
    /\ Len(out) = 1

\* an int-valued, non-zero attribute
IsIntAttr(d, k) == k \in DOMAIN d /\ d[k].t = "int" /\ d[k].n # 0

\* C8: a product without variant records yields exactly one offer, with the
\* product's identifier as id and price, stock and available taken from the
\* product's fields (stock 5, price 100: available "true", price "100.00"); a
\* product with variant records yields no offer beyond those of its variants.
C8_ProductOfferIffNoVariants ==
    /\ (inVariants = <<>> /\ OfferDone) =>
          /\ Len(out) = 1
          /\ out[1].id = PyStrOf(IdOf(inProduct))
          /\ IsIntAttr(AttrOf(inProduct), "stock") =>
                /\ out[1].stock = IntToStr(AttrOf(inProduct)["stock"].n)
                /\ (out[1].available = "true") <=> (AttrOf(inProduct)["stock"].n > 0)
          /\ IsIntAttr(AttrOf(inProduct), "price") =>
                out[1].price = IntToStr(AttrOf(inProduct)["price"].n) \o <<".", "0", "0">>
    /\ (inVariants # <<>>) => Len(out) = Len(Identified) \/ raised

\* scenario A: no variants, stock 5 and price 100
C8_Witness ==
    /\ inVariants = <<>>
    /\ Get(AttrOf(inProduct), "stock") = PyInt(5)
    /\ Get(AttrOf(inProduct), "price") = PyInt(100)
    /\ Len(out) = 1
    /\ out[1].available = "true"
    /\ out[1].price = <<"1", "0", "0", ".", "0", "0">>

\* the custom fields of a variant
CfList(var) ==
    LET c == GetD(AttrOf(var), "custom_fields", PyList(<<>>))
    IN  IF IsList(c) THEN c.s ELSE <<>>

\* the custom field was mapped to colour, or to size, by extract_color_and_size
MappedToColor(cf) ==
    IsDict(cf) /\ Truthy(Get(cf, "value")) /\ AnyIn(color_fields, CfFieldName(cf))
MappedToSize(cf) ==
    IsDict(cf) /\ Truthy(Get(cf, "value")) /\ ~AnyIn(color_fields, CfFieldName(cf))
    /\ AnyIn(size_fields, CfFieldName(cf))

NoDirectColor(var) == \A i \in 1..Len(color_fields) : ~NonEmptyAttr(AttrOf(var), color_fields[i])

IsGenericSource(cf) ==
    IsDict(cf) /\ NonEmptyAttr(cf, "uuid") /\ NonEmptyAttr(cf, "value")
    /\ ~MappedToColor(cf) /\ ~MappedToSize(cf)

ParamOfField(cf) == [name |-> PyStrOf(GetD(cf, "name", cf["uuid"])), text |-> safe_text(cf["value"])]

IsDedicated(p) == p.name \in {KolirName, RozmirName}
IsGeneric(p) == ~IsDedicated(p)

ColorEntries(o) == {i \in 1..Len(o.params) : o.params[i].name = KolirName}

\* C9: when a variant has no direct colour attribute but a custom field mapped to
\* colour, its offer has exactly one colour entry, carrying the value of such a
\* custom field; the generic parameters are exactly the custom fields with a uuid
\* and a non-empty value that were mapped neither to colour nor to size.
C9_ColorFromCustomFieldOnce ==
    (inVariants # <<>> /\ ~raised) =>
        \A i \in 1..Len(out) :
            LET var == Identified[i]
                cfs == CfList(var)
                sources == SelectSeq(cfs, IsGenericSource)
            IN  /\ (NoDirectColor(var) /\ \E j \in 1..Len(cfs) : MappedToColor(cfs[j])) =>
                       /\ Cardinality(ColorEntries(out[i])) = 1
                       /\ \E j \in 1..Len(cfs) :
                             /\ MappedToColor(cfs[j])
                             /\ \A k \in ColorEntries(out[i]) :
                                   out[i].params[k].text = safe_text(cfs[j]["value"])
                /\ SelectSeq(out[i].params, IsGeneric)
                      = [j \in 1..Len(sources) |-> ParamOfField(sources[j])]

\* scenario E beside an ordinary custom field: the colour comes from the custom
\* field and the ordinary field is the only generic parameter
C9_Witness ==
    /\ Len(inVariants) = 1 /\ Len(out) = 1
    /\ NoDirectColor(inVariants[1])
    /\ Len(CfList(inVariants[1])) = 2
    /\ CfList(inVariants[1])[1] = [name |-> PyStr(<<"CY_K", "cy_o", "cy_l", "cy_i", "cy_r">>),
                                   uuid |-> PyStr(<<"u", "1">>),
                                   value |-> PyStr(<<"r", "e", "d">>)]
    /\ IsGenericSource(CfList(inVariants[1])[2])
    /\ out[1].params = <<[name |-> KolirName, text |-> <<"r", "e", "d">>],
                         [name |-> <<"M", "a", "t">>, text |-> <<"w", "o", "o", "l">>]>>

\* the picture list the offer is built from
SourcePics(i) ==
    IF inVariants = <<>> THEN common_pics(AttrOf(inProduct))
    ELSE VariantPics(AttrOf(Identified[i]), AttrOf(inProduct))

RECURSIVE DedupFirst(_, _)
DedupFirst(xs, seen) ==
    IF xs = <<>> THEN <<>>
    ELSE IF Head(xs) \in seen THEN DedupFirst(Tail(xs), seen)
    ELSE <<Head(xs)>> \o DedupFirst(Tail(xs), seen \cup {Head(xs)})

\* C10 (as claimed): the picture elements of an offer hold no URL twice and keep
\* the URLs in the order of their first occurrence in the source list.
C10_PicturesDeduplicated ==
    ~raised =>
        \A i \in 1..Len(out) :
            /\ \A j, k \in 1..Len(out[i].pictures) :
                  j # k => out[i].pictures[j] # out[i].pictures[k]
            /\ out[i].pictures = DedupFirst(Pictures(SourcePics(i)), {})

\* the stock attributes the variant loop reads, in its order
StockKeys == <<"stock", "quantity", "available_quantity", "balance", "cy:ostatok">>

HasStockField(var_attr) == \E i \in 1..Len(StockKeys) : StockKeys[i] \in DOMAIN var_attr

\* the attribute is present and holds a number
IsNumberAttr(d, k) == k \in DOMAIN d /\ d[k].t \in {"int", "float"}

\* C14 (as claimed): a variant offer takes each merged field from the variant
\* when the variant record has it and from the product otherwise: a variant
\* without any stock field gets the product's stock (7 under a product with
\* stock 7), a variant whose price is present as a number keeps it (0 gives
\* "0.00"), and a variant without a name gets the product's name.
C14_VariantOverridesProduct ==
    (inVariants # <<>> /\ ~raised) =>
        \A i \in 1..Len(out) :
            LET var_attr == AttrOf(Identified[i])
                prod_attr == AttrOf(inProduct)
            IN  /\ (~HasStockField(var_attr) /\ ProductStockOf(prod_attr).exc = "") =>
                       out[i].stock = IntToStr(ProductStockOf(prod_attr).v)
                /\ IsNumberAttr(var_attr, "price") =>
                       out[i].price = Format2(PriceOf(var_attr["price"]))
                /\ "name" \notin DOMAIN var_attr =>
                       out[i].name = safe_text(product_name(prod_attr, IdOf(inProduct)))

\* the value of the first custom field, in list order, that satisfies Mapped
FirstMapped(cfs, Mapped(_)) ==
    IF \E j \in 1..Len(cfs) : Mapped(cfs[j])
    THEN LET j == CHOOSE j \in 1..Len(cfs) :
                      Mapped(cfs[j]) /\ \A k \in 1..(j - 1) : ~Mapped(cfs[k])
         IN  cfs[j]["value"]
    ELSE None

\* the texts of the offer's parameters called name
EntryTexts(o, name) ==
    LET named == SelectSeq(o.params, LAMBDA p : p.name = name)
    IN  [j \in 1..Len(named) |-> named[j].text]

\* the value the claimed resolution order yields: the direct attribute, else the
\* first matching custom field
ClaimedValue(var_attr, cfs, fields, Mapped(_)) ==
    IF Truthy(FirstDirect(var_attr, fields)) THEN FirstDirect(var_attr, fields)
    ELSE FirstMapped(cfs, Mapped)

\* C15 (as claimed): the custom fields are consulted for colour (size) only when
\* no direct colour (size) attribute of the variant matched, and then the first
\* matching custom field in list order supplies the value: the offer's colour
\* (size) entry carries the direct attribute when there is one, else the value
\* of the earliest matching custom field.
C15_DirectThenFirstCustomField ==
    (inVariants # <<>> /\ ~raised) =>
        \A i \in 1..Len(out) :
            LET var_attr == AttrOf(Identified[i])
                cfs == CfList(Identified[i])
                color == ClaimedValue(var_attr, cfs, color_fields, MappedToColor)
                size == ClaimedValue(var_attr, cfs, size_fields, MappedToSize)
            IN  /\ Truthy(color) => EntryTexts(out[i], KolirName) = <<safe_text(color)>>
                /\ Truthy(size) => EntryTexts(out[i], RozmirName) = <<safe_text(size)>>

----------------------------------------------------------------------------
(* The upstream API *)

max_retries == 3
delay == 1

MaxProducts == 2
MaxVars == 2
MaxFaults == 3
\* the fetch loops of the code have no page counter to stop them; the model
\* follows a call up to this page
PageHorizon == 4

PageSizes == {1, 2}

\* how the upstream tells that more pages remain
Styles == {"full", "next_only", "cur_last", "has_next", "none"}

\* an upstream that answers every page of one resource with 200, a full page of
\* records, a next_page link and current_page < last_page
EndlessStyles == {"endless_products", "endless_offers"}

\* sku = FALSE: the variant records carry no identifier attribute
Upstreams ==
    [nProd : 0..MaxProducts, nVar : 0..MaxVars, pageSize : PageSizes, style : Styles,
     sku : {TRUE}]
    \cup [nProd : 1..MaxProducts, nVar : 1..MaxVars, pageSize : {2}, style : {"full"},
          sku : {FALSE}]
    \cup [nProd : {1}, nVar : {1}, pageSize : PageSizes, style : EndlessStyles, sku : {TRUE}]

\* resource r of the upstream never runs out of pages
Endless(up, r) ==
    \/ up.style = "endless_products" /\ r = "products"
    \/ up.style = "endless_offers" /\ r = "offers"

\* the pagination convention resource r is served with
StyleOf(up, r) ==
    IF Endless(up, r) THEN "endless" ELSE IF up.style \in EndlessStyles THEN "full" ELSE up.style

ProductRec(i) ==
    [id |-> PyInt(i), name |-> PyStr(<<"P", Digit(i)>>), price |-> PyInt(100), stock |-> PyInt(5)]

VariantRec(pid, j) ==
    [id |-> PyInt(10 * pid + j), sku |-> PyStr(<<"S", Digit(pid), Digit(j)>>),
     stock |-> PyInt(j - 1), price |-> PyInt(50)]

\* a variant record without sku, article, code or vendor_code
BareVariantRec(pid, j) ==
    [id |-> PyInt(10 * pid + j), stock |-> PyInt(j - 1), price |-> PyInt(50)]

\* record k of resource r
RecordOf(up, r, pid, k) ==
    IF r = "products" THEN ProductRec(k)
    ELSE IF up.sku THEN VariantRec(pid, k) ELSE BareVariantRec(pid, k)

\* number of pages holding n records
NPages(n, size) == (n + size - 1) \div size

Min(a, b) == IF a < b THEN a ELSE b

\* number of records of resource r (for product pid) the upstream holds
Total(up, r) == IF r = "products" THEN up.nProd ELSE up.nVar

\* the records of page p; an endless resource serves the same full page again
PageItems(up, r, pid, p) ==
    LET lo == (p - 1) * up.pageSize + 1
        hi == Min(p * up.pageSize, Total(up, r))
    IN  IF Endless(up, r) THEN [k \in 1..up.pageSize |-> RecordOf(up, r, pid, k)]
        ELSE [k \in 1..(IF hi >= lo THEN hi - lo + 1 ELSE 0) |-> RecordOf(up, r, pid, lo + k - 1)]

\* all records of the resource, in page order
AllItems(up, r, pid) == [k \in 1..Total(up, r) |-> RecordOf(up, r, pid, k)]

\* the records of pages 1..n, in page order
RECURSIVE PagesUpTo(_, _, _, _)
PagesUpTo(up, r, pid, n) ==
    IF n = 0 THEN <<>> ELSE PagesUpTo(up, r, pid, n - 1) \o PageItems(up, r, pid, n)

NextUrl == PyStr(<<"n", "e", "x", "t">>)

\* meta.pagination of page p out of last pages
PaginationMeta(style, p, last) ==
    CASE style = "full" ->
            [next_page |-> IF p < last THEN NextUrl ELSE None,
             current_page |-> PyInt(p), last_page |-> PyInt(last)]
      [] style = "next_only" -> [next_page |-> IF p < last THEN NextUrl ELSE None]
      [] style = "cur_last" -> [current_page |-> PyInt(p), last_page |-> PyInt(last)]
      [] style = "has_next" -> [has_next_page |-> PyBool(p < last)]
      [] style = "endless" ->
            [next_page |-> NextUrl, current_page |-> PyInt(p), last_page |-> PyInt(p + 1)]
      [] style = "none" -> EmptyDict

\* the JSON body answered with status 200 for page p
Payload(up, r, pid, p) ==
    LET last == NPages(Total(up, r), up.pageSize)
        data == PyList(PageItems(up, r, pid, p))
        style == StyleOf(up, r)
    IN  IF style = "none" THEN [data |-> data]
        ELSE [data |-> data, meta |-> [pagination |-> PaginationMeta(style, p, last)]]

----------------------------------------------------------------------------
(* Spec: one run of rozetka_feed *)

\* what safe_request hands back: None, or the response with its body
NoneRet == [isNone |-> TRUE, jsonOk |-> FALSE, payload |-> EmptyDict]
Resp(ok, payload) == [isNone |-> FALSE, jsonOk |-> ok, payload |-> payload]

\* the product whose variants are being fetched
CurrentPid == IF res = "offers" THEN IdOf(products[idx]).n ELSE 0

Init ==
    /\ upstream \in Upstreams
    /\ pc = "request"
    /\ res = "products"
    /\ page = 1
    /\ attempt = 0
    /\ ret = NoneRet
    /\ products = <<>>
    /\ variants = <<>>
    /\ idx = 0
    /\ feed = <<>>
    /\ response = NoResponse
    /\ sleeps = <<>>
    /\ answers = <<>>
    /\ pagesReq = <<1>>
    /\ faults = 0
    /\ seen401 = FALSE
    /\ after401 = FALSE
    /\ inProduct = EmptyDict
    /\ inVariants = <<>>
    /\ vpos = 0
    /\ out = <<>>
    /\ raised = FALSE

\* requests.get was called and answered with status
Requested(status) ==
    /\ answers' = Append(answers, status)
    /\ after401' = (after401 \/ seen401)

\* time.sleep(delay * (attempt + 1)) after a 429
\* faulty variant: the same delay after every 429
BackoffFor_Flat(n) == delay
BackoffFor(n) == delay * (n + 1)

\* the for loop of safe_request goes on to its next attempt, or ends: return None
NextAttempt ==
    IF attempt + 1 < max_retries
    THEN /\ attempt' = attempt + 1
         /\ UNCHANGED <<pc, ret>>
    ELSE /\ pc' = "returned"
         /\ ret' = NoneRet
         /\ UNCHANGED attempt

\* except RequestException: re-raised on the last attempt, else sleep(delay) and retry
Caught ==
    IF attempt = max_retries - 1
    THEN /\ pc' = "done"
         /\ response' = ServerError
         /\ UNCHANGED <<attempt, ret, sleeps>>
    ELSE /\ attempt' = attempt + 1
         /\ sleeps' = Append(sleeps, delay)
         /\ UNCHANGED <<pc, ret, response>>

\* status 200: safe_request returns the response
Answer200 ==
    /\ pc = "request"
    /\ Requested("200")
    /\ \E ok \in BOOLEAN :
          /\ ok \/ faults < MaxFaults
          /\ faults' = IF ok THEN faults ELSE faults + 1
          /\ ret' = Resp(ok, IF ok THEN Payload(upstream, res, CurrentPid, page) ELSE EmptyDict)
    /\ pc' = "returned"
    /\ UNCHANGED <<upstream, res, page, attempt, products, variants, idx, feed, response,
                   sleeps, pagesReq, seen401, offerVars>>

\* status 429: sleep, then the next attempt
Answer429 ==
    /\ pc = "request"
    /\ faults < MaxFaults
    /\ Requested("429")
    /\ faults' = faults + 1
    /\ sleeps' = Append(sleeps, BackoffFor(attempt))
    /\ NextAttempt
    /\ UNCHANGED <<upstream, res, page, products, variants, idx, feed, response,
                   pagesReq, seen401, offerVars>>

\* status 401: HTTPError is raised inside the try block and caught by its except clause
Answer401 ==
    /\ pc = "request"
    /\ faults < MaxFaults
    /\ Requested("401")
    /\ faults' = faults + 1
    /\ seen401' = TRUE
    /\ Caught
    /\ UNCHANGED <<upstream, res, page, products, variants, idx, feed, pagesReq, offerVars>>

\* another 4xx/5xx status (raise_for_status raises) or a network error
AnswerError ==
    /\ pc = "request"
    /\ faults < MaxFaults
    /\ \E status \in {"500", "neterr"} : Requested(status)
    /\ faults' = faults + 1
    /\ Caught
    /\ UNCHANGED <<upstream, res, page, products, variants, idx, feed, pagesReq, seen401,
                   offerVars>>

\* a status below 400 other than 200: raise_for_status returns, the loop goes on
AnswerOther ==
    /\ pc = "request"
    /\ faults < MaxFaults
    /\ Requested("204")
    /\ faults' = faults + 1
    /\ NextAttempt
    /\ UNCHANGED <<upstream, res, page, products, variants, idx, feed, response, sleeps,
                   pagesReq, seen401, offerVars>>

\* "if not pagination.get('next_page') or current_page >= last_page: break"
PaginationCheck(pagination) ==
    LET cur == Get(pagination, "current_page")
        last == GetD(pagination, "last_page", PyInt(1))
    IN  IF ~Truthy(Get(pagination, "next_page")) THEN "break"
        ELSE IF cur.t \notin {"int", "float", "bool"} \/ last.t \notin {"int", "float", "bool"}
        THEN "TypeError"
        ELSE IF cur.n >= last.n THEN "break"
        ELSE "continue"

\* faulty variant: a page safe_request gave up on is skipped and the next one requested
PageOutcome_SkipsPage(r) ==
    IF r.isNone THEN [kind |-> "continue", items |-> <<>>]
    ELSE IF ~r.jsonOk THEN [kind |-> "break", items |-> <<>>]
    ELSE LET items == GetD(r.payload, "data", PyList(<<>>))
             meta == GetD(r.payload, "meta", EmptyDict)
             pagination == GetD(meta, "pagination", EmptyDict)
         IN  IF ~Truthy(items) THEN [kind |-> "break", items |-> <<>>]
             ELSE [kind |-> PaginationCheck(pagination), items |-> items.s]

\* one pass of the fetch loop after safe_request returned r: the records it
\* appends and how the pass ends
PageOutcome(r) ==
    IF r.isNone \/ ~r.jsonOk THEN [kind |-> "break", items |-> <<>>]
    ELSE LET items == GetD(r.payload, "data", PyList(<<>>))
             meta == GetD(r.payload, "meta", EmptyDict)
             pagination == GetD(meta, "pagination", EmptyDict)
         IN  IF ~Truthy(items) THEN [kind |-> "break", items |-> <<>>]
             ELSE [kind |-> PaginationCheck(pagination), items |-> items.s]

\* page += 1 and the next safe_request call; a call is followed up to page
\* PageHorizon
NextPage ==
    /\ page < PageHorizon
    /\ page' = page + 1
    /\ pc' = "request"
    /\ attempt' = 0
    /\ ret' = NoneRet
    /\ sleeps' = <<>>
    /\ answers' = <<>>
    /\ pagesReq' = Append(pagesReq, page + 1)

\* fetch_offers_for_product(product_id) is entered
CallFetchOffers ==
    /\ res' = "offers"
    /\ page' = 1
    /\ variants' = <<>>
    /\ pc' = "request"
    /\ attempt' = 0
    /\ ret' = NoneRet
    /\ sleeps' = <<>>
    /\ answers' = <<>>
    /\ pagesReq' = <<1>>

\* the rest of a pass of fetch_products' loop
FetchProductsStep ==
    /\ pc = "returned" /\ res = "products"
    /\ LET o == PageOutcome(ret)
       IN  /\ products' = products \o o.items
           /\ CASE o.kind = "continue" -> NextPage /\ UNCHANGED response
                [] o.kind = "break" ->
                      /\ pc' = "fetched"
                      /\ UNCHANGED <<page, attempt, ret, sleeps, answers, pagesReq, response>>
                [] o.kind = "TypeError" ->
                      /\ pc' = "done"
                      /\ response' = ServerError
                      /\ UNCHANGED <<page, attempt, ret, sleeps, answers, pagesReq>>
    /\ UNCHANGED <<upstream, res, variants, idx, feed, faults, seen401, after401, offerVars>>

\* fetch_products returned: 404 without products, else the first product
StartProducts ==
    /\ pc = "fetched"
    /\ IF products = <<>>
       THEN /\ pc' = "done"
            /\ response' = NotFound
            /\ UNCHANGED <<res, page, variants, attempt, ret, sleeps, answers, pagesReq, idx>>
       ELSE /\ idx' = 1
            /\ CallFetchOffers
            /\ UNCHANGED response
    /\ UNCHANGED <<upstream, products, feed, faults, seen401, after401, offerVars>>

\* the rest of a pass of fetch_offers_for_product's loop
FetchOffersStep ==
    /\ pc = "returned" /\ res = "offers"
    /\ LET o == PageOutcome(ret)
       IN  /\ variants' = variants \o o.items
           /\ CASE o.kind = "continue" -> NextPage /\ UNCHANGED response
                [] o.kind = "break" ->
                      /\ pc' = "process"
                      /\ UNCHANGED <<page, attempt, ret, sleeps, answers, pagesReq, response>>
                [] o.kind = "TypeError" ->
                      /\ pc' = "done"
                      /\ response' = ServerError
                      /\ UNCHANGED <<page, attempt, ret, sleeps, answers, pagesReq>>
    /\ UNCHANGED <<upstream, res, products, idx, feed, faults, seen401, after401, offerVars>>

\* the product's offers are appended; then the next product, or the response
ProcessProduct ==
    /\ pc = "process"
    /\ LET r == OffersOf(products[idx], variants)
       IN  IF r.kind = "raise"
           THEN /\ pc' = "done"
                /\ response' = ServerError
                /\ UNCHANGED <<res, page, variants, attempt, ret, sleeps, answers, pagesReq,
                               idx, feed>>
           ELSE /\ feed' = feed \o r.offers
                /\ IF idx < Len(products)
                   THEN /\ idx' = idx + 1
                        /\ CallFetchOffers
                        /\ UNCHANGED response
                   ELSE /\ pc' = "done"
                        /\ response' = XmlResponse(feed \o r.offers)
                        /\ UNCHANGED <<res, page, variants, attempt, ret, sleeps, answers,
                                       pagesReq, idx>>
    /\ UNCHANGED <<upstream, products, faults, seen401, after401, offerVars>>

Next ==
    \/ Answer200
    \/ Answer429
    \/ Answer401
    \/ AnswerError
    \/ AnswerOther
    \/ FetchProductsStep
    \/ StartProducts
    \/ FetchOffersStep
    \/ ProcessProduct

Spec == Init /\ [][Next]_vars

----------------------------------------------------------------------------
(* Properties of the run (Spec) *)

\* C1 (as claimed): once a request of the run is answered 401, no further request
\* is issued, and the run ends with a failure response and no XML document.
C1_AbortOn401 ==
    /\ ~after401
    /\ (seen401 /\ pc = "done") => (response.status # 200 /\ ~response.xml)

\* the current safe_request call was answered 429 on its first k attempts
\* (k = 1 or 2) and 200 on attempt k + 1
RateLimitedThenOk ==
    /\ Len(answers) \in {2, 3}
    /\ \A i \in 1..(Len(answers) - 1) : answers[i] = "429"
    /\ answers[Len(answers)] = "200"

\* the fetch loop appends exactly the records of the requested page
AppendsPageOnce ==
    /\ res = "products" => products' = products \o PageItems(upstream, "products", 0, page)
    /\ res = "offers" => variants' = variants \o PageItems(upstream, "offers", CurrentPid, page)

\* the only failure that can follow is the TypeError of the pagination check,
\* raised when next_page is set and current_page is missing
NoErrorFromRetry ==
    response' = ServerError =>
        (upstream.style = "next_only" /\ page < NPages(Total(upstream, res), upstream.pageSize))

\* C2: with max_retries = 3 and delay = 1, a page answered 429 on the first k
\* attempts (k = 1 or 2) and 200 on attempt k + 1 makes safe_request return that
\* response after exactly k sleeps, the i-th of delay * i; the fetch loop then
\* appends the page's records exactly once, and the retries cause no failure.
C2_RateLimitThenSuccess ==
    /\ [](pc = "returned" /\ RateLimitedThenOk =>
            /\ ~ret.isNone
            /\ sleeps = [i \in 1..(Len(answers) - 1) |-> delay * i])
    /\ [][(pc = "returned" /\ RateLimitedThenOk /\ ret.jsonOk) =>
            (AppendsPageOnce /\ NoErrorFromRetry)]_vars

\* scenario C: 429, 429, 200 on the only product page; fetch_products has returned
\* that page's records after sleeping 1 and 2
C2_Witness ==
    /\ pc = "fetched"
    /\ answers = <<"429", "429", "200">>
    /\ sleeps = <<1, 2>>
    /\ pagesReq = <<1>>
    /\ products = <<ProductRec(1), ProductRec(2)>>

\* C3 (as claimed): a page whose every attempt fails with a status such as 500 or
\* with a network error is treated as empty and the run goes on: the run never
\* ends in a failure at such a request.
C3_ExhaustedErrorsTreatedAsEmpty ==
    ~(/\ pc = "done"
      /\ response = ServerError
      /\ Len(answers) = max_retries
      /\ \A i \in 1..Len(answers) : answers[i] \in {"500", "neterr"})

\* C4 (as claimed): against an upstream that answers every request with 200,
\* whichever of next_page, current_page/last_page or has_next_page it sends, the
\* fetch loops request pages 1, 2, 3, ... in order and return the records of
\* every page in page order, and the run does not fail.
C4_AllPagesWhateverConvention ==
    (faults = 0 /\ upstream.style \in {"full", "next_only", "cur_last", "has_next"}) =>
        /\ pagesReq = [i \in 1..Len(pagesReq) |-> i]
        /\ pc = "fetched" => products = AllItems(upstream, "products", 0)
        /\ pc = "process" => variants = AllItems(upstream, "offers", CurrentPid)
        /\ pc = "done" => response.status # 500

\* C11: a run ends in exactly one of two outcomes: the XML document holding the
\* offers of all fetched products, built after the last product was processed,
\* or one failure response without XML; nothing is returned before the run has
\* finished and the response never changes afterwards. A run that fetched no
\* product ends in a failure, and when fetch_products returns no product that
\* failure is the 404, which differs from an empty feed (200) and from the
\* failure of an uncaught error (500).
C11_OneOutcomePerRun ==
    /\ [](pc # "done" => response = NoResponse)
    /\ [](pc = "done" =>
            \/ /\ response = XmlResponse(feed)
               /\ products # <<>>
               /\ idx = Len(products)
            \/ response \in {NotFound, ServerError})
    /\ [](pc = "done" /\ products = <<>> => ~response.xml /\ response.status \in {404, 500})
    /\ [][pc = "fetched" /\ products = <<>> =>
            /\ response' = NotFound
            /\ response'.status \notin {XmlResponse(<<>>).status, ServerError.status}
            /\ ~response'.xml]_vars
    /\ [][response # NoResponse => response' = response]_vars

\* the upstream holds no product: page 1 is answered 200 with an empty list and
\* the run has ended with the 404
C11_Witness ==
    /\ pc = "done"
    /\ upstream.nProd = 0
    /\ answers = <<"200">>
    /\ products = <<>>
    /\ feed = <<>>
    /\ response = NotFound

\* C12 (as claimed): a safety cap bounds the pages one call of fetch_products or
\* fetch_offers_for_product requests, even when every page is answered 200 with
\* records, a next_page link and current_page < last_page: within PageHorizon
\* pages the loop has stopped by itself and does not go on to another page.
C12_PageCapStopsFetch ==
    ~(/\ pc = "returned"
      /\ Endless(upstream, res)
      /\ page = PageHorizon
      /\ pagesReq = [i \in 1..PageHorizon |-> i]
      /\ PageOutcome(ret).kind = "continue")

\* every attempt of the current safe_request call was answered 429
AllRateLimited ==
    /\ Len(answers) = max_retries
    /\ \A i \in 1..Len(answers) : answers[i] = "429"

\* the records the current fetch call has accumulated
Accumulated == IF res = "products" THEN products ELSE variants

\* C13: when page N is answered 429 on every attempt, safe_request makes exactly
\* max_retries requests for it, sleeps delay * i after the i-th, and returns
\* None without raising; the fetch loop then stops: it holds exactly the records
\* of pages 1..N-1 in order, requests no further page, and the run goes on with
\* those records.
C13_RateLimitExhausted ==
    /\ [](pc = "request" => Len(answers) < max_retries)
    /\ []((Len(answers) < max_retries /\ \A i \in 1..Len(answers) : answers[i] = "429")
            => pc \in {"request", "off"})
    /\ [](pc = "returned" /\ AllRateLimited =>
            /\ ret.isNone
            /\ response = NoResponse
            /\ sleeps = [i \in 1..max_retries |-> delay * i]
            /\ pagesReq = [i \in 1..page |-> i]
            /\ Accumulated = PagesUpTo(upstream, res, CurrentPid, page - 1))
    /\ [][pc = "returned" /\ AllRateLimited =>
            /\ pc' = IF res = "products" THEN "fetched" ELSE "process"
            /\ products' = products
            /\ variants' = variants
            /\ page' = page
            /\ pagesReq' = pagesReq
            /\ response' = NoResponse]_vars

\* page 2 of the products was answered 429 three times: fetch_products has
\* returned the record of page 1 after sleeping 1, 2 and 3
C13_Witness ==
    /\ pc = "fetched"
    /\ upstream.nProd = 2
    /\ answers = <<"429", "429", "429">>
    /\ sleeps = <<1, 2, 3>>
    /\ pagesReq = <<1, 2>>
    /\ products = <<ProductRec(1)>>

====
